---- MODULE Spec2Model ----
(***************************************************************************)
(* Filter-graph construction of the debanding pipelines of                 *)
(* debandshit/debanders.py and vsdeband/funcs.py.                          *)
(*                                                                         *)
(* A pipeline call is synchronous and stateless: it takes a clip and some  *)
(* parameters, invokes a chain of filters and either returns the last node *)
(* or raises.  The model records every filter invocation of a call, in     *)
(* order, in `log`; a clip is identified by the index of the invocation    *)
(* that produced it (0 is the caller's clip).                              *)
(***************************************************************************)
EXTENDS Integers, Sequences, FiniteSets, TLC

VARIABLES clip, radius, pc, fn, args, log, err, ret

vars == <<clip, radius, pc, fn, args, log, err, ret>>

-----------------------------------------------------------------------------
(* Bounds of the explored inputs *)

MaxDim == 5

MaxThr == 2

MaxRadius == 2

MaxRadiusNum == 120

MaxScale == 3

(* radii are rationals num/RadiusDen, so that non-integer radii and exact   *)
(* halves (ties of round) occur                                             *)
RadiusDen == 8

-----------------------------------------------------------------------------
(* Python values: a number is a pair <<num, den>>, a list a sequence of     *)
(* numbers, None its own kind.                                              *)

PyNone == [k |-> "none", v |-> <<>>]

PyNum(n, d) == [k |-> "num", v |-> <<<<n, d>>>>]

PyInt(n) == PyNum(n, 1)

PyList(s) == [k |-> "list", v |-> s]

Ints(s) == [i \in 1..Len(s) |-> <<s[i], 1>>]

Max(a, b) == IF a >= b THEN a ELSE b

(* bool(x): None, 0 and the empty list are false *)
Truthy(x) ==
    CASE x.k = "none" -> FALSE
      [] x.k = "num"  -> x.v[1][1] # 0
      [] x.k = "list" -> Len(x.v) > 0

(* vstools.to_arr: a scalar becomes a one-element list *)
to_arr(x) == x.v

(* vstools.fallback: the first argument unless it is None *)
fallback(x, default) == IF x.k = "none" THEN default ELSE x

(* vstools.normalize_seq: pad with the last element, cut to length *)
normalize_seq(x, length) ==
    [i \in 1..length |-> IF i <= Len(to_arr(x)) THEN to_arr(x)[i]
                                                ELSE to_arr(x)[Len(to_arr(x))]]

(* round(num/den) of Python 3: to nearest, ties to the even integer *)
Round(num, den) ==
    LET q == num \div den
        r == num % den
    IN  IF 2 * r < den THEN q
        ELSE IF 2 * r > den THEN q + 1
        ELSE IF q % 2 = 0 THEN q ELSE q + 1

(* math.ceil(num/den) *)
Ceil(num, den) == -((-num) \div den)

-----------------------------------------------------------------------------
(* Clips *)

NumPlanes == 3

BitDepths == {8, 10, 16, 32}

FLOAT(c) == c.bits = 32

SrcId == 0

FailedId == -2

(* a vs.VideoNode whose format is None *)
VariableClip == [id |-> SrcId, node |-> TRUE, variable |-> TRUE,
                 bits |-> 0, w |-> 0, h |-> 0, ssw |-> 0, ssh |-> 0]

FixedClips ==
    {[id |-> SrcId, node |-> TRUE, variable |-> FALSE,
      bits |-> b, w |-> w, h |-> h, ssw |-> sw, ssh |-> sh] :
        b \in BitDepths, w \in 1..MaxDim, h \in 1..MaxDim,
        sw \in 0..1, sh \in 0..1}

(* a frame's dimensions are multiples of its subsampling factors *)
ValidClip(c) == c.w % (2 ^ c.ssw) = 0 /\ c.h % (2 ^ c.ssh) = 0

Clips == {VariableClip} \cup {c \in FixedClips : ValidClip(c)}

(* the function vsrgtools.blur imported at module level in funcs.py: an     *)
(* object that is not a clip                                                *)
blur == [id |-> -1, node |-> FALSE, variable |-> FALSE,
         bits |-> 0, w |-> 0, h |-> 0, ssw |-> 0, ssh |-> 0]

NoClip == [id |-> FailedId, node |-> FALSE, variable |-> FALSE,
           bits |-> 0, w |-> 0, h |-> 0, ssw |-> 0, ssh |-> 0]

-----------------------------------------------------------------------------
(* Evaluation of a call: `e` is the sequence of invocations made so far,    *)
(* `x` the pending exception ("" if none) and `val` the value of the last   *)
(* expression.  Once an exception is pending nothing more is invoked.       *)

Start == [e |-> <<>>, x |-> "", val |-> NoClip]

Raise(s, exc) == IF s.x # "" THEN s ELSE [s EXCEPT !.x = exc, !.val = NoClip]

Entry(op, ins, out, p) ==
    [op |-> op, ins |-> ins, out |-> out.id,
     bits |-> out.bits, w |-> out.w, h |-> out.h,
     by |-> p.by, radius |-> p.radius, thr |-> p.thr, grains |-> p.grains,
     planes |-> p.planes]

NoParams == [by |-> "", radius |-> PyNone, thr |-> PyNone, grains |-> PyNone,
             planes |-> PyNone]

(* a filter invoked with inputs `ins`: it yields a new node shaped as       *)
(* `shape` if `ok`, and raises `exc` otherwise                              *)
Invoke(s, op, ins, shape, p, ok, exc) ==
    IF s.x # "" THEN s
    ELSE IF ok
    THEN LET out == [shape EXCEPT !.id = Len(s.e) + 1]
         IN  [e |-> Append(s.e, Entry(op, [i \in 1..Len(ins) |-> ins[i].id], out, p)),
              x |-> "", val |-> out]
    ELSE [e |-> Append(s.e, Entry(op, [i \in 1..Len(ins) |-> ins[i].id], NoClip, p)),
          x |-> exc, val |-> NoClip]

IsClip(c) == c.node /\ ~c.variable

SameFormat(a, b) ==
    /\ a.bits = b.bits /\ a.w = b.w /\ a.h = b.h
    /\ a.ssw = b.ssw /\ a.ssh = b.ssh

-----------------------------------------------------------------------------
(* Filters of the host and of the adjacent libraries.  Each keeps the       *)
(* format of its first input unless it is a conversion.                     *)

(* vstools.depth: converts the sample depth; a clip already at that depth   *)
(* is returned as it is                                                     *)
depth(s, c, bits) ==
    IF s.x # "" THEN s
    ELSE IF IsClip(c) /\ c.bits = bits THEN [s EXCEPT !.val = c]
    ELSE Invoke(s, "depth", <<c>>, [c EXCEPT !.bits = bits], NoParams, IsClip(c), "Error")

(* vstools.expect_bits: the clip at the expected depth; the caller keeps    *)
(* the original depth                                                       *)
expect_bits(s, c, bits) ==
    IF s.x # "" THEN s
    ELSE IF c.bits # bits THEN depth(s, c, bits) ELSE [s EXCEPT !.val = c]

(* vstools.check_variable: raises on a clip without a fixed format *)
check_variable(s, c) == IF c.variable THEN Raise(s, "VariableFormatError") ELSE s

(* vsrgtools.limit_filter(flt, src, ref): the clips must share a format *)
limit_filter(s, ins, thr) ==
    Invoke(s, "limit_filter", ins, ins[1], [NoParams EXCEPT !.thr = thr],
           \A i \in 1..Len(ins) : IsClip(ins[i]) /\ SameFormat(ins[i], ins[1]), "Error")

(* std.MakeDiff / std.MergeDiff: both clips must share a format *)
MakeDiff(s, a, b) ==
    Invoke(s, "MakeDiff", <<a, b>>, a, NoParams,
           IsClip(a) /\ IsClip(b) /\ SameFormat(a, b), "Error")

MergeDiff(s, a, b) ==
    Invoke(s, "MergeDiff", <<a, b>>, a, NoParams,
           IsClip(a) /\ IsClip(b) /\ SameFormat(a, b), "Error")

(* std.Convolution *)
Convolution(s, c, planes) ==
    Invoke(s, "Convolution", <<c>>, c, [NoParams EXCEPT !.planes = planes],
           IsClip(c), "Error")

(* resize.Spline64 / Scaler.scale: the target must be positive and          *)
(* compatible with the chroma subsampling                                   *)
Spline64(s, c, width, height) ==
    Invoke(s, "Spline64", <<c>>, [c EXCEPT !.w = width, !.h = height], NoParams,
           /\ IsClip(c) /\ width > 0 /\ height > 0
           /\ width % (2 ^ c.ssw) = 0 /\ height % (2 ^ c.ssh) = 0, "Error")

-----------------------------------------------------------------------------
(* Debander capability (F3kdb, Placebo): deband and grain hand the clip to  *)
(* the native plugin, which keeps the format and raises on what it cannot   *)
(* process.                                                                 *)

Debander_deband(s, by, c, rad, thr, grains) ==
    Invoke(s, "deband", <<c>>, c,
           [NoParams EXCEPT !.by = by, !.radius = rad, !.thr = thr, !.grains = grains],
           IsClip(c), "Error")

Debander_grain(s, by, c, grains) ==
    Invoke(s, "grain", <<c>>, c, [NoParams EXCEPT !.by = by, !.grains = grains],
           IsClip(c), "Error")

(* F3kdb constructor: one threshold per plane in thy, thcb, thcr *)
F3kdb_thr(threshold) == PyList(normalize_seq(threshold, 3))

-----------------------------------------------------------------------------
(* debandshit/debanders.py *)

(* variant: the ratio of the second stage inverted (3/2 for 2/3) *)
StageRadii_inverted(num) ==
    <<Round(num * 4, RadiusDen * 3), Round(num * 3, RadiusDen * 2), Round(num, RadiusDen * 3)>>

(* the stage radii of the three-stage pipelines, for a base radius of      *)
(* num/RadiusDen                                                            *)
StageRadii(num) ==
    <<Round(num * 4, RadiusDen * 3), Round(num * 2, RadiusDen * 3), Round(num, RadiusDen * 3)>>

(* variant: th // 2 without the lower limit of 1 *)
HalvedThr_unclamped(th) == <<th[1] \div (2 * th[2]), 1>>

(* max(1, th // 2) *)
HalvedThr(th) == <<Max(1, th[1] \div (2 * th[2])), 1>>

dumb3kdb(c, num, threshold, grain) ==
    Debander_deband(Start, "F3kdb", c, PyNum(num, RadiusDen), F3kdb_thr(threshold), grain)

placebo_deband(c, num, threshold, grain) ==
    Debander_deband(Start, "Placebo", c, PyNum(num, RadiusDen), threshold, grain)

f3kbilateral(c, num, threshold, grain) ==
    LET s0   == IF c.variable THEN Raise(Start, "ValueError") ELSE Start
        bits == c.bits
        rad  == StageRadii(num)
        th   == F3kdb_thr(threshold)
        th1  == PyList([i \in 1..3 |-> HalvedThr(th.v[i])])
        s1   == depth(s0, c, 16)
        flt1 == Debander_deband(s1, "F3kdb", s1.val, PyInt(rad[1]), th1, PyInt(0))
        flt2 == Debander_deband(flt1, "F3kdb", flt1.val, PyInt(rad[2]), th, PyInt(0))
        flt3 == Debander_deband(flt2, "F3kdb", flt2.val, PyInt(rad[3]), th, PyInt(0))
        limit == limit_filter(flt3, <<flt3.val, flt2.val, s1.val>>, PyNum(3, 5))
        grained == IF Truthy(grain)
                   THEN Debander_grain(limit, "F3kdb", limit.val, grain)
                   ELSE limit
    IN  depth(grained, grained.val, bits)

f3kpf(c, num, threshold, grain) ==
    LET s0   == IF c.variable THEN Raise(Start, "ValueError") ELSE Start
        b1   == Convolution(s0, c, PyNone)
        b2   == Convolution(b1, b1.val, PyInt(0))
        diff == MakeDiff(b2, c, b2.val)
        deband == Debander_deband(diff, "F3kdb", b2.val, PyNum(num, RadiusDen),
                                  F3kdb_thr(threshold), grain)
        limit == limit_filter(deband, <<deband.val, b2.val>>, PyNum(3, 10))
    IN  MergeDiff(limit, limit.val, diff.val)

(* variant: the result is returned at the working depth *)
lfdeband_unrestored(c, num, threshold, grain) ==
    LET s0   == IF c.variable THEN Raise(Start, "ValueError") ELSE Start
        wss  == 2 ^ c.ssw
        hss  == 2 ^ c.ssh
        dw   == Round(c.w, 2)
        dh   == Round(c.h, 2)
        s1   == depth(s0, c, 16)
        dsc  == Spline64(s1, s1.val, dw - (dw % wss), dh - (dh % hss))
        d3kdb == Debander_deband(dsc, "F3kdb", dsc.val, PyNum(num, RadiusDen),
                                 F3kdb_thr(threshold), grain)
        ddif == MakeDiff(d3kdb, d3kdb.val, dsc.val)
        dif  == Spline64(ddif, ddif.val, c.w, c.h)
    IN  MergeDiff(dif, s1.val, dif.val)

lfdeband(c, num, threshold, grain) ==
    LET s0   == IF c.variable THEN Raise(Start, "ValueError") ELSE Start
        bits == c.bits
        wss  == 2 ^ c.ssw
        hss  == 2 ^ c.ssh
        dw   == Round(c.w, 2)
        dh   == Round(c.h, 2)
        s1   == depth(s0, c, 16)
        dsc  == Spline64(s1, s1.val, dw - (dw % wss), dh - (dh % hss))
        d3kdb == Debander_deband(dsc, "F3kdb", dsc.val, PyNum(num, RadiusDen),
                                 F3kdb_thr(threshold), grain)
        ddif == MakeDiff(d3kdb, d3kdb.val, dsc.val)
        dif  == Spline64(ddif, ddif.val, c.w, c.h)
        out  == MergeDiff(dif, s1.val, dif.val)
    IN  depth(out, out.val, bits)

-----------------------------------------------------------------------------
(* vsdeband/funcs.py *)

(* variant: the grain is given to the third pass, before the limiting *)
mdb_bilateral_grain_in_pass(c, num, thr, grains) ==
    LET s0   == check_variable(Start, c)
        s1   == expect_bits(s0, c, 16)
        bits == c.bits
        rad  == StageRadii(num)
        th1  == PyList([i \in 1..Len(to_arr(thr)) |-> HalvedThr(to_arr(thr)[i])])
        db1  == Debander_deband(s1, "F3kdb", s1.val, PyInt(rad[1]), th1, PyInt(0))
        db2  == Debander_deband(db1, "F3kdb", db1.val, PyInt(rad[2]), thr, PyInt(0))
        db3  == Debander_deband(db2, "F3kdb", db2.val, PyInt(rad[3]), thr, grains)
        limit == limit_filter(db3, <<db3.val, db2.val, s1.val>>, PyList(Ints(<<153, 0>>)))
    IN  depth(limit, limit.val, bits)

mdb_bilateral(c, num, thr, grains) ==
    LET s0   == check_variable(Start, c)
        s1   == expect_bits(s0, c, 16)
        bits == c.bits
        rad  == StageRadii(num)
        th1  == PyList([i \in 1..Len(to_arr(thr)) |-> HalvedThr(to_arr(thr)[i])])
        db1  == Debander_deband(s1, "F3kdb", s1.val, PyInt(rad[1]), th1, PyInt(0))
        db2  == Debander_deband(db1, "F3kdb", db1.val, PyInt(rad[2]), thr, PyInt(0))
        db3  == Debander_deband(db2, "F3kdb", db2.val, PyInt(rad[3]), thr, PyInt(0))
        limit == limit_filter(db3, <<db3.val, db2.val, s1.val>>, PyList(Ints(<<153, 0>>)))
        grained == IF Truthy(grains)
                   THEN Debander_grain(limit, "F3kdb", limit.val, grains)
                   ELSE limit
    IN  depth(grained, grained.val, bits)

(* the caller's prefilter: it may accept the keyword planes, reject it, or  *)
(* raise whatever it is given                                               *)
Prefilters == {"accepts_planes", "rejects_planes", "raises"}

prefilter(s, kind, c, planes) ==
    Invoke(s, "prefilter", <<c>>, c, [NoParams EXCEPT !.planes = planes],
           /\ IsClip(c)
           /\ \/ kind = "accepts_planes"
              \/ kind = "rejects_planes" /\ planes = PyNone, "Exception")

(* variant: no fallback, the first exception propagates *)
pfdeband_prefilter_noretry(s, kind, c) ==
    IF s.x # "" THEN s ELSE prefilter(s, kind, c, PyInt(0))

(* try: prefilter(clip, planes=0) except Exception: prefilter(clip) *)
pfdeband_prefilter(s, kind, c) ==
    IF s.x # "" THEN s
    ELSE LET try == prefilter(s, kind, c, PyInt(0))
         IN  IF try.x = "" THEN try
             ELSE prefilter([try EXCEPT !.x = ""], kind, c, PyNone)

pfdeband(c, num, thr, grains, kind) ==
    LET s0    == check_variable(Start, c)
        pblur == pfdeband_prefilter(s0, kind, c)
        diff  == MakeDiff(pblur, c, pblur.val)
        deband == Debander_deband(diff, "F3kdb", pblur.val, PyNum(num, RadiusDen), thr, grains)
        limit == limit_filter(deband, <<deband.val, pblur.val>>, PyList(Ints(<<76, 0>>)))
    IN  MergeDiff(limit, limit.val, diff.val)

vsdeband_lfdeband(c, num, thr, grains, scale) ==
    LET s0   == check_variable(Start, c)
        wss  == 2 ^ c.ssw
        hss  == 2 ^ c.ssh
        s1   == IF scale = 0 THEN Raise(s0, "ZeroDivisionError") ELSE s0
        dw   == Round(c.w, scale)
        dh   == Round(c.h, scale)
        s2   == expect_bits(s1, c, 16)
        bits == c.bits
        dsc  == Spline64(s2, s2.val, dw - (dw % wss), dh - (dh % hss))
        deband == Debander_deband(dsc, "F3kdb", blur, PyNum(num, RadiusDen), thr, grains)
        ddif == MakeDiff(deband, deband.val, dsc.val)
        dif  == Spline64(ddif, ddif.val, c.w, c.h)
        out  == MergeDiff(dif, s2.val, dif.val)
    IN  depth(out, out.val, bits)

(* filters.guided_filter *)
guided_filter(s, c, rad) ==
    Invoke(s, "guided_filter", <<c>>, c, [NoParams EXCEPT !.radius = rad],
           IsClip(c), "Error")

(* vsmask expand / inpand, vsexprtools.norm_expr, std.Binarize,            *)
(* vsrgtools.removegrain, std.MaskedMerge                                   *)
MaskFilter(s, op, ins) ==
    Invoke(s, op, ins, ins[1], NoParams, \A i \in 1..Len(ins) : IsClip(ins[i]), "Error")

(* list(map(int, to_arr(thr))) *)
IntList(thr) == PyList([i \in 1..Len(to_arr(thr)) |->
                          <<to_arr(thr)[i][1] \div to_arr(thr)[i][2], 1>>])

(* the default binarize threshold; for integer formats the code evaluates   *)
(* scale_value(0.005859375, 32, scale_value), whose output depth is a       *)
(* function object                                                          *)
default_bin_thr(s, c, full) ==
    IF s.x # "" THEN s
    ELSE IF FLOAT(c)
    THEN [s EXCEPT !.val = IF full THEN PyNum(1, 170)
                                   ELSE PyList(<<<<1, 146>>, <<3, 448>>>>)]
    ELSE Raise(s, "TypeError")

guided_deband(c, gradius, thr, rad, bin_thr, full) ==
    LET s0   == check_variable(Start, c)
        rad1 == fallback(rad, PyInt(Ceil(c.h, 540)))
        s1   == IF bin_thr = PyNone THEN default_bin_thr(s0, c, full) ELSE s0
        bt   == IF s1.x # "" THEN <<>>
                ELSE normalize_seq(IF bin_thr = PyNone THEN s1.val ELSE bin_thr, NumPlanes)
        deband == guided_filter(s1, c, gradius)
        lim  == IF Truthy(thr)
                THEN limit_filter(deband, <<deband.val, c>>, IntList(thr))
                ELSE deband
        ex   == MaskFilter(lim, "expand", <<c>>)
        inp  == MaskFilter(ex, "inpand", <<c>>)
        rmask == MaskFilter(inp, "norm_expr", <<ex.val, inp.val>>)
        bin  == IF \E i \in 1..Len(bt) : bt[i][1] > 0
                THEN MaskFilter(rmask, "Binarize", <<rmask.val>>)
                ELSE rmask
        rg1  == MaskFilter(bin, "removegrain", <<bin.val>>)
        rg2  == MaskFilter(rg1, "removegrain", <<rg1.val>>)
        rg3  == MaskFilter(rg2, "removegrain", <<rg2.val>>)
        merged == Invoke(rg3, "MaskedMerge", <<lim.val, c, rg3.val>>, lim.val, NoParams,
                         IsClip(lim.val) /\ IsClip(rg3.val), "Error")
    IN  IF Truthy(rad1) THEN merged ELSE lim

-----------------------------------------------------------------------------
(* The caller: holds a clip and a base radius, calls one pipeline and gets  *)
(* a node or an exception.                                                  *)

Thresholds ==
    {PyInt(t) : t \in 0..MaxThr} \cup {PyList(Ints(<<MaxThr, 1>>)), PyList(Ints(<<1, 5, 65>>))}

Grains == {PyInt(0), PyInt(1), PyList(Ints(<<0, 0>>)), PyList(Ints(<<1, 0>>))}

Radii == {n * RadiusDen : n \in 1..MaxRadius} \cup {RadiusDen \div 2, RadiusDen + 1}

DefaultArgs ==
    [radius |-> PyNone, thr |-> PyNone, grain |-> PyNone, scale |-> 2,
     prefilter |-> "", rad |-> PyInt(0), bin_thr |-> PyInt(0), full |-> FALSE]

Finish(name, a, r) ==
    /\ fn' = name
    /\ args' = a
    /\ log' = r.e
    /\ err' = r.x
    /\ ret' = IF r.x = "" THEN r.val ELSE NoClip
    /\ pc' = IF r.x = "" THEN "returned" ELSE "raised"
    /\ UNCHANGED <<clip, radius>>

Call_dumb3kdb ==
    /\ pc = "idle"
    /\ \E th \in Thresholds, g \in Grains :
          Finish("dumb3kdb",
                 [DefaultArgs EXCEPT !.radius = PyNum(radius, RadiusDen), !.thr = th, !.grain = g],
                 dumb3kdb(clip, radius, th, g))

Call_placebo_deband ==
    /\ pc = "idle"
    /\ \E th \in Thresholds, g \in Grains :
          Finish("placebo_deband",
                 [DefaultArgs EXCEPT !.radius = PyNum(radius, RadiusDen), !.thr = th, !.grain = g],
                 placebo_deband(clip, radius, th, g))

Call_f3kbilateral ==
    /\ pc = "idle"
    /\ \E th \in Thresholds, g \in Grains :
          Finish("f3kbilateral",
                 [DefaultArgs EXCEPT !.radius = PyNum(radius, RadiusDen), !.thr = th, !.grain = g],
                 f3kbilateral(clip, radius, th, g))

Call_f3kpf ==
    /\ pc = "idle"
    /\ \E th \in Thresholds, g \in Grains :
          Finish("f3kpf",
                 [DefaultArgs EXCEPT !.radius = PyNum(radius, RadiusDen), !.thr = th, !.grain = g],
                 f3kpf(clip, radius, th, g))

Call_lfdeband ==
    /\ pc = "idle"
    /\ \E th \in Thresholds, g \in Grains :
          Finish("lfdeband",
                 [DefaultArgs EXCEPT !.radius = PyNum(radius, RadiusDen), !.thr = th, !.grain = g],
                 lfdeband(clip, radius, th, g))

Call_mdb_bilateral ==
    /\ pc = "idle"
    /\ \E th \in Thresholds, g \in Grains :
          Finish("mdb_bilateral",
                 [DefaultArgs EXCEPT !.radius = PyNum(radius, RadiusDen), !.thr = th, !.grain = g],
                 mdb_bilateral(clip, radius, th, g))

Call_pfdeband ==
    /\ pc = "idle"
    /\ \E th \in Thresholds, g \in Grains, kind \in Prefilters :
          Finish("pfdeband",
                 [DefaultArgs EXCEPT !.radius = PyNum(radius, RadiusDen), !.thr = th, !.grain = g,
                                     !.prefilter = kind],
                 pfdeband(clip, radius, th, g, kind))

Call_vsdeband_lfdeband ==
    /\ pc = "idle"
    /\ \E th \in Thresholds, g \in Grains, scale \in 0..MaxScale :
          Finish("vsdeband_lfdeband",
                 [DefaultArgs EXCEPT !.radius = PyNum(radius, RadiusDen), !.thr = th, !.grain = g,
                                     !.scale = scale],
                 vsdeband_lfdeband(clip, radius, th, g, scale))

GuidedRadii == {PyNone, PyInt(2)}

GuidedThrs == {PyNone, PyInt(0), PyNum(3, 2), PyList(Ints(<<0, 0>>))}

MaskRadii == {PyNone, PyInt(0), PyInt(1)}

BinThrs == {PyNone, PyInt(0), PyNum(1, 2), PyList(Ints(<<0, 0>>))}

Call_guided_deband ==
    /\ pc = "idle"
    /\ \E gr \in GuidedRadii, th \in GuidedThrs, rad \in MaskRadii, bt \in BinThrs,
          full \in BOOLEAN :
          Finish("guided_deband",
                 [DefaultArgs EXCEPT !.radius = gr, !.thr = th, !.rad = rad, !.bin_thr = bt,
                                     !.full = full],
                 guided_deband(clip, gr, th, rad, bt, full))

Init ==
    /\ clip \in Clips
    /\ radius \in Radii
    /\ pc = "idle"
    /\ fn = ""
    /\ args = DefaultArgs
    /\ log = <<>>
    /\ err = ""
    /\ ret = NoClip

Next ==
    \/ Call_dumb3kdb
    \/ Call_placebo_deband
    \/ Call_f3kbilateral
    \/ Call_f3kpf
    \/ Call_lfdeband
    \/ Call_mdb_bilateral
    \/ Call_pfdeband
    \/ Call_vsdeband_lfdeband
    \/ Call_guided_deband

Spec == Init /\ [][Next]_vars

(* the same caller with one small clip and a wide range of base radii *)
RadiusClip == [id |-> SrcId, node |-> TRUE, variable |-> FALSE,
               bits |-> 8, w |-> 4, h |-> 4, ssw |-> 1, ssh |-> 1]

InitRadius ==
    /\ clip = RadiusClip
    /\ radius \in 1..MaxRadiusNum
    /\ pc = "idle"
    /\ fn = ""
    /\ args = DefaultArgs
    /\ log = <<>>
    /\ err = ""
    /\ ret = NoClip

SpecRadius == InitRadius /\ [][Next]_vars

-----------------------------------------------------------------------------
(* Properties *)

Idx(op) == {i \in 1..Len(log) : log[i].op = op}

Called == pc # "idle"

ThreeStage == fn \in {"f3kbilateral", "mdb_bilateral"}

(* position of the first deband invocation of a three-stage call: after    *)
(* the conversion to 16 bits, if there is one                               *)
K == IF clip.bits = 16 THEN 1 ELSE 2

(* the 16-bit source of a three-stage call *)
Src16 == IF clip.bits = 16 THEN SrcId ELSE log[1].out

(* the threshold the caller supplied for plane i *)
PlaneThr(i) == IF i <= Len(args.thr.v) THEN args.thr.v[i][1]
                                       ELSE args.thr.v[Len(args.thr.v)][1]

AllZero(x) == \A i \in 1..Len(x.v) : x.v[i][1] = 0

(* C1: a call of any pipeline function with a variable-format clip raises,  *)
(* and no filter has been invoked before the failure.                       *)
C1_VariableFormatFailsFirst ==
    (Called /\ clip.variable) => (pc = "raised" /\ log = <<>>)

(* C2: a call that returns yields a clip with the width, height and bit     *)
(* depth of the input clip.                                                 *)
C2_FormatPreserved ==
    pc = "returned" =>
        /\ ret.node /\ ~ret.variable
        /\ ret.w = clip.w /\ ret.h = clip.h /\ ret.bits = clip.bits

C2_Witness ==
    /\ pc = "returned" /\ fn = "lfdeband"
    /\ clip.bits = 8 /\ clip.w = 5 /\ clip.h = 3
    /\ \E i \in Idx("deband") : log[i].bits = 16 /\ log[i].w = 2 /\ log[i].h = 2

(* C3: in the three-stage pipelines pass 1 runs on the 16-bit source, pass  *)
(* 2 on pass 1's output, pass 3 on pass 2's output, all with grain 0; then  *)
(* limit_filter of pass 3 against pass 2 and the 16-bit source; grain is    *)
(* added only after that, to the limited clip, and only for a non-zero      *)
(* grain argument; with grain 0 the limited clip is what is returned.       *)
C3_StageOrder ==
    (ThreeStage /\ pc = "returned") =>
        /\ (clip.bits # 16) => (log[1].op = "depth" /\ log[1].ins = <<SrcId>> /\ log[1].bits = 16)
        /\ Idx("deband") = {K, K + 1, K + 2}
        /\ log[K].ins = <<Src16>>
        /\ log[K + 1].ins = <<log[K].out>>
        /\ log[K + 2].ins = <<log[K + 1].out>>
        /\ \A i \in Idx("deband") : log[i].grains = PyInt(0)
        /\ Idx("limit_filter") = {K + 3}
        /\ log[K + 3].ins = <<log[K + 2].out, log[K + 1].out, Src16>>
        /\ \A i \in Idx("grain") :
              /\ i = K + 4
              /\ log[i].ins = <<log[K + 3].out>>
              /\ args.grain # PyInt(0)
              /\ log[i].grains = args.grain
        /\ (args.grain = PyInt(0)) =>
              /\ Idx("grain") = {}
              /\ IF clip.bits = 16
                 THEN Len(log) = K + 3 /\ ret.id = log[K + 3].out
                 ELSE /\ Len(log) = K + 4
                      /\ log[K + 4].op = "depth"
                      /\ log[K + 4].ins = <<log[K + 3].out>>
                      /\ ret.id = log[K + 4].out

C3_Witness ==
    /\ ThreeStage /\ pc = "returned"
    /\ args.grain = PyInt(1)
    /\ clip.bits = 10
    /\ Len(log) = 7
    /\ log[6].op = "grain" /\ log[5].op = "limit_filter"

(* C4: in the three-stage pipelines the first pass runs, for every plane,   *)
(* with max(1, th // 2) of the supplied threshold th: at least 1, at most   *)
(* th when th >= 1; passes 2 and 3 run with the supplied thresholds.        *)
C4_FirstPassHalved ==
    (ThreeStage /\ pc = "returned") =>
        /\ Len(log[K].thr.v) >= Len(args.thr.v)
        /\ \A i \in 1..Len(log[K].thr.v) :
              LET th == PlaneThr(i)
                  h  == log[K].thr.v[i][1]
              IN  /\ log[K].thr.v[i][2] = 1
                  /\ h >= 1
                  /\ (th >= 1) => (h <= th)
                  /\ (th >= 2) => (2 * h <= th /\ th < 2 * h + 2)
                  /\ (th < 2) => (h = 1)
        /\ \A j \in {K + 1, K + 2} :
              /\ Len(log[j].thr.v) >= Len(args.thr.v)
              /\ \A i \in 1..Len(log[j].thr.v) : log[j].thr.v[i] = <<PlaneThr(i), 1>>

C4_Witness ==
    /\ ThreeStage /\ pc = "returned"
    /\ args.thr = PyList(Ints(<<MaxThr, 1>>))
    /\ log[K].thr.v[1] = <<Max(1, MaxThr \div 2), 1>>
    /\ log[K].thr.v[2] = <<1, 1>>
    /\ log[K + 1].thr.v[1] = <<MaxThr, 1>>

(* C5: for any positive base radius the radii of the three passes are in    *)
(* decreasing order: rad1 >= rad2 >= rad3.                                  *)
C5_RadiiDecrease ==
    (ThreeStage /\ pc = "returned") =>
        /\ \A i \in K..(K + 2) : log[i].radius.k = "num" /\ log[i].radius.v[1][2] = 1
        /\ log[K].radius.v[1][1] >= log[K + 1].radius.v[1][1]
        /\ log[K + 1].radius.v[1][1] >= log[K + 2].radius.v[1][1]
        /\ log[K + 2].radius.v[1][1] >= 0

C5_Witness ==
    /\ ThreeStage /\ pc = "returned"
    /\ radius % RadiusDen # 0
    /\ log[K].radius.v[1][1] > log[K + 1].radius.v[1][1]
    /\ log[K + 1].radius.v[1][1] > log[K + 2].radius.v[1][1]
    /\ log[K + 2].radius.v[1][1] >= 1

(* C6: in guided_deband with limiting and mask disabled (thr None or 0,     *)
(* rad 0) the call returns the output of the single guided_filter           *)
(* invocation and invokes nothing else; thr alone enables only the          *)
(* limiting, rad alone only the mask construction and merge.                *)
C6_GuidedStagesOptional ==
    (fn = "guided_deband" /\ ~clip.variable) =>
        LET limiting == args.thr \notin {PyNone, PyInt(0)}
            masking  == args.rad # PyInt(0)
        IN  /\ pc = "returned"
            /\ Idx("guided_filter") = {1}
            /\ (Idx("limit_filter") # {}) <=> limiting
            /\ (Idx("MaskedMerge") # {}) <=> masking
            /\ (Idx("expand") \cup Idx("inpand") \cup Idx("norm_expr")
                  \cup Idx("Binarize") \cup Idx("removegrain") # {}) => masking
            /\ (~limiting /\ ~masking) => (Len(log) = 1 /\ ret.id = log[1].out)

(* C7: in lfdeband the clip handed to the debander is the downscaled clip,  *)
(* of width dw - dw % wss and height dh - dh % hss; the difference between  *)
(* the debanded and the downscaled clip is upscaled to (w, h) and merged    *)
(* onto the full-resolution clip.                                           *)
C7_DebandsDownscaled ==
    (fn \in {"lfdeband", "vsdeband_lfdeband"}) =>
        \A i \in Idx("deband") :
            /\ i > 1
            /\ log[i - 1].op = "Spline64"
            /\ log[i].ins = <<log[i - 1].out>>
            /\ LET dw == Round(clip.w, args.scale)
                   dh == Round(clip.h, args.scale)
               IN  /\ log[i - 1].w = dw - (dw % (2 ^ clip.ssw))
                   /\ log[i - 1].h = dh - (dh % (2 ^ clip.ssh))
                   /\ log[i - 1].w % (2 ^ clip.ssw) = 0
                   /\ log[i - 1].h % (2 ^ clip.ssh) = 0
                   /\ log[i - 1].w <= dw /\ log[i - 1].h <= dh
            /\ (pc = "returned") =>
                  /\ Len(log) >= i + 3
                  /\ log[i + 1].op = "MakeDiff"
                  /\ log[i + 1].ins = <<log[i].out, log[i - 1].out>>
                  /\ log[i + 2].op = "Spline64"
                  /\ log[i + 2].ins = <<log[i + 1].out>>
                  /\ log[i + 2].w = clip.w /\ log[i + 2].h = clip.h
                  /\ log[i + 3].op = "MergeDiff"
                  /\ log[i + 3].ins[2] = log[i + 2].out

(* C8: pfdeband calls the prefilter first with planes=0 and a second time,  *)
(* without planes, only if the first call raised; the blurred reference of  *)
(* MakeDiff, deband and limit_filter is the result of the call that         *)
(* succeeded; an error of the second call propagates with nothing invoked   *)
(* after it.                                                                *)
C8_PrefilterFallback ==
    (fn = "pfdeband" /\ ~clip.variable) =>
        /\ Idx("prefilter") \in {{1}, {1, 2}}
        /\ log[1].planes = PyInt(0) /\ log[1].ins = <<SrcId>>
        /\ (2 \in Idx("prefilter")) <=> (log[1].out = FailedId)
        /\ (2 \in Idx("prefilter")) => (log[2].planes = PyNone /\ log[2].ins = <<SrcId>>)
        /\ LET last == IF 2 \in Idx("prefilter") THEN 2 ELSE 1
           IN  IF log[last].out = FailedId
               THEN pc = "raised" /\ Len(log) = last
               ELSE /\ pc = "returned"
                    /\ Len(log) = last + 4
                    /\ log[last + 1].op = "MakeDiff"
                    /\ log[last + 1].ins = <<SrcId, log[last].out>>
                    /\ log[last + 2].op = "deband"
                    /\ log[last + 2].ins = <<log[last].out>>
                    /\ log[last + 3].op = "limit_filter"
                    /\ log[last + 3].ins = <<log[last + 2].out, log[last].out>>

C8_Witness ==
    /\ fn = "pfdeband" /\ pc = "returned"
    /\ args.prefilter = "rejects_planes"
    /\ Len(log) = 6
    /\ log[1].out = FailedId
    /\ log[4].ins = <<log[2].out>>

(* C9: when the caller gives guided_deband no radius, the radius passed to  *)
(* guided_filter is ceil(height / 540), never None.                         *)
C9_GuidedRadiusDefault ==
    (fn = "guided_deband" /\ args.radius = PyNone) =>
        \A i \in Idx("guided_filter") : log[i].radius = PyInt(Ceil(clip.h, 540))

(* C10: in pfdeband the requested grain is added in the last stage, after   *)
(* limit_filter; the deband invocation that precedes limit_filter adds no   *)
(* grain.                                                                   *)
C10_GrainAfterLimit ==
    (fn = "pfdeband" /\ pc = "returned") =>
        /\ \A i \in Idx("deband"), j \in Idx("limit_filter") :
              (i < j) => AllZero(log[i].grains)
        /\ (~AllZero(args.grain)) =>
              \E i \in Idx("grain"), j \in Idx("limit_filter") :
                  i > j /\ log[i].grains = args.grain

====
